---- MODULE Spec2Model ----
(***************************************************************************)
(* Component contracts of the React component library: the stateful       *)
(* Button (forwardRef version) and the Input field control; and the       *)
(* resources the CDK constructs and stacks build.                         *)
(*                                                                         *)
(* JavaScript values are modelled as tokens: Undefined is an omitted      *)
(* prop, EmptyStr the empty string, NumZero the number 0, True and False  *)
(* the booleans; every other string is a non-empty string or a node.      *)
(***************************************************************************)
EXTENDS Naturals, Sequences, FiniteSets

Undefined == "undefined"
EmptyStr == ""
NumZero == "num:0"
True == "true"
False == "false"

\* JavaScript truthiness of a prop value
Truthy(v) == v \notin {Undefined, EmptyStr, NumZero, False}

\* A destructuring default: applies only when the prop is undefined
Default(v, d) == IF v = Undefined THEN d ELSE v

\* a && b, as JavaScript evaluates it on a value and a boolean
AndThen(v, b) == Truthy(v) /\ b

----------------------------------------------------------------------------
(* Bounds *)

MaxAttempts == 3
MaxTyped == 2
MaxOrigins == 2

----------------------------------------------------------------------------
(* Button *)

VARIABLES buttonProps, button, focused, attempts, onClickCalls, lastAttempt,
          inputProps, input, fieldValue, typed,
          cdkProps, cdkPlan, resources,
          button2, focused2, onClickCalls2

buttonVars == <<buttonProps, button, focused, attempts, onClickCalls, lastAttempt>>
inputVars == <<inputProps, input, fieldValue, typed>>
cdkVars == <<cdkProps, cdkPlan, resources>>
secondVars == <<button2, focused2, onClickCalls2>>
vars == <<buttonProps, button, focused, attempts, onClickCalls, lastAttempt,
          inputProps, input, fieldValue, typed,
          cdkProps, cdkPlan, resources,
          button2, focused2, onClickCalls2>>

OptBool == {Undefined, True, False}
IconNodes == {Undefined, NumZero, "icon"}

\* ButtonProps: the values each prop is drawn from
ButtonPropValues ==
  [ children |-> {"Save Changes"},
    loading |-> OptBool,
    loadingText |-> {Undefined, "Saving..."},
    disabled |-> OptBool,
    disabledReason |-> {Undefined, EmptyStr, "Form is incomplete"},
    startIcon |-> IconNodes,
    endIcon |-> IconNodes,
    onClick |-> {Undefined, "fn"} ]

ButtonProps ==
  [ children : ButtonPropValues.children, loading : ButtonPropValues.loading,
    loadingText : ButtonPropValues.loadingText, disabled : ButtonPropValues.disabled,
    disabledReason : ButtonPropValues.disabledReason,
    startIcon : ButtonPropValues.startIcon, endIcon : ButtonPropValues.endIcon,
    onClick : ButtonPropValues.onClick ]

\* const isDisabled = disabled || loading
isDisabled_and(disabled, loading) == Truthy(disabled) /\ Truthy(loading)
isDisabled(disabled, loading) == Truthy(disabled) \/ Truthy(loading)

Node(kind, slot, text) == [kind |-> kind, slot |-> slot, text |-> text]

Spinner == Node("svg", "spinner", EmptyStr)
LoadingLabel == "Loading..."

\* {icon && <span className="flex-shrink-0">{icon}</span>}
\* a falsy icon is itself the child: React renders the number 0 as text
\* and renders nothing for undefined, false and the empty string
IconSlot(slot, icon) ==
  IF Truthy(icon) THEN <<Node("span", slot, icon)>>
  ELSE IF icon = NumZero THEN <<Node("text", slot, "0")>>
  ELSE <<>>

BusyContent(p) == <<Spinner, Node("text", "busy", LoadingLabel)>>

IdleContent(p) ==
  IconSlot("startIcon", p.startIcon)
    \o <<Node("span", "children", p.children)>>
    \o IconSlot("endIcon", p.endIcon)

ButtonContent_busyWhenDisabled(p) ==
  IF isDisabled(Default(p.disabled, False), Default(p.loading, False))
  THEN BusyContent(p) ELSE IdleContent(p)
ButtonContent_keepsChildren(p) ==
  IF Truthy(Default(p.loading, False))
  THEN BusyContent(p) \o IdleContent(p) ELSE IdleContent(p)
ButtonContent(p) ==
  IF Truthy(Default(p.loading, False)) THEN BusyContent(p) ELSE IdleContent(p)

\* aria-label={disabledReason && isDisabled ? disabledReason : undefined}
AriaLabel_ignoresState(p) ==
  IF Truthy(p.disabledReason) THEN p.disabledReason ELSE Undefined
AriaLabel(p) ==
  IF AndThen(p.disabledReason,
             isDisabled(Default(p.disabled, False), Default(p.loading, False)))
  THEN p.disabledReason ELSE Undefined

\* The <button> element one render produces.  rest is the {...props}
\* spread: the declared props the destructuring does not name.
RenderButton(p) ==
  [ disabled |-> isDisabled(Default(p.disabled, False), Default(p.loading, False)),
    ariaLabel |-> AriaLabel(p),
    content |-> ButtonContent(p),
    rest |-> [loadingText |-> p.loadingText] ]

\* handleClick: the number of onClick invocations one click event causes
handleClick_invertedGuard(p) ==
  IF isDisabled(Default(p.disabled, False), Default(p.loading, False))
       \/ Truthy(p.onClick)
  THEN 0
  ELSE IF Truthy(Default(p.loading, False)) THEN 0
  ELSE 1
handleClick(p) ==
  IF isDisabled(Default(p.disabled, False), Default(p.loading, False))
       \/ ~Truthy(p.onClick)
  THEN 0
  ELSE IF Truthy(Default(p.loading, False)) THEN 0
  ELSE 1

\* The browser dispatches no click event on a disabled button
DispatchClick(el, p) == IF el.disabled THEN 0 ELSE handleClick(p)

\* History of the latest activation attempt: the props and focus it was
\* made under, and how many onClick invocations it caused
NoAttempt ==
  [ kind |-> "none", disabled |-> FALSE, loading |-> FALSE, onClick |-> FALSE,
    focused |-> FALSE, invoked |-> 0 ]

Attempt(kind, invoked) ==
  [ kind |-> kind,
    disabled |-> buttonProps.disabled = True,
    loading |-> buttonProps.loading = True,
    onClick |-> buttonProps.onClick # Undefined,
    focused |-> focused,
    invoked |-> invoked ]

ButtonInit ==
  /\ buttonProps \in ButtonProps
  /\ button = RenderButton(buttonProps)
  /\ focused = FALSE
  /\ attempts = 0
  /\ onClickCalls = 0
  /\ lastAttempt = NoAttempt

\* The parent re-renders the Button with one prop changed
RerenderButton ==
  \E k \in DOMAIN ButtonPropValues :
    \E v \in ButtonPropValues[k] \ {buttonProps[k]} :
      /\ buttonProps' = [buttonProps EXCEPT ![k] = v]
      /\ button' = RenderButton(buttonProps')
      /\ UNCHANGED <<focused, attempts, onClickCalls, lastAttempt>>

\* button.focus(): a disabled button cannot take focus
FocusButton ==
  /\ ~focused
  /\ focused' = ~button.disabled
  /\ UNCHANGED <<buttonProps, button, attempts, onClickCalls, lastAttempt>>

BlurButton ==
  /\ focused
  /\ focused' = FALSE
  /\ UNCHANGED <<buttonProps, button, attempts, onClickCalls, lastAttempt>>

\* userEvent.click(button)
Click ==
  /\ attempts < MaxAttempts
  /\ attempts' = attempts + 1
  /\ onClickCalls' = onClickCalls + DispatchClick(button, buttonProps)
  /\ lastAttempt' = Attempt("click", onClickCalls' - onClickCalls)
  /\ focused' = ~button.disabled
  /\ UNCHANGED <<buttonProps, button>>

\* userEvent.keyboard('{Enter}'): Enter on the focused button is a click
PressEnter ==
  /\ attempts < MaxAttempts
  /\ attempts' = attempts + 1
  /\ onClickCalls' = onClickCalls
        + (IF focused THEN DispatchClick(button, buttonProps) ELSE 0)
  /\ lastAttempt' = Attempt("enter", onClickCalls' - onClickCalls)
  /\ UNCHANGED <<buttonProps, button, focused>>

----------------------------------------------------------------------------
(* Button, second copy: mounted next to the first with the same props *)

\* className of the first copy, for the default variant, size, fullWidth
\* and className: `${baseClasses} ${variantClasses} ${sizeClasses}`
ButtonClassName ==
  << "inline-flex items-center justify-center",
     "font-medium rounded-lg transition-all duration-200",
     "focus:outline-none focus:ring-2 focus:ring-offset-2 focus:ring-offset-gray-900",
     "disabled:opacity-50 disabled:cursor-not-allowed",
     "shadow-lg hover:shadow-xl",
     "w-auto",
     "text-white bg-gradient-to-r from-blue-600 to-blue-700 hover:from-blue-700 hover:to-blue-800 focus:ring-blue-500/50 disabled:from-blue-400 disabled:to-blue-500",
     "px-4 py-2 text-base gap-2" >>

\* className of the second copy, for the same defaults
ButtonClassName2 ==
  << "inline-flex items-center justify-center",
     "font-medium rounded-lg transition-all duration-200",
     "focus:outline-none focus:ring-2 focus:ring-offset-2",
     "disabled:opacity-50 disabled:cursor-not-allowed",
     "w-auto",
     "text-white bg-blue-600 hover:bg-blue-700 focus:ring-blue-500 disabled:bg-blue-400",
     "px-4 py-2 text-base gap-2" >>

\* const isDisabled = disabled || loading
isDisabled2_disabledOnly(disabled, loading) == Truthy(disabled)
isDisabled2(disabled, loading) == Truthy(disabled) \/ Truthy(loading)

IconSlot2(slot, icon) ==
  IF Truthy(icon) THEN <<Node("span", slot, icon)>>
  ELSE IF icon = NumZero THEN <<Node("text", slot, "0")>>
  ELSE <<>>

BusyContent2(p) ==
  <<Node("svg", "spinner", EmptyStr), Node("text", "busy", "Loading...")>>

IdleContent2(p) ==
  IconSlot2("startIcon", p.startIcon)
    \o <<Node("span", "children", p.children)>>
    \o IconSlot2("endIcon", p.endIcon)

\* {loading ? (<>svg Loading...</>) : (<>startIcon children endIcon</>)}
ButtonContent2(p) ==
  IF Truthy(Default(p.loading, False)) THEN BusyContent2(p) ELSE IdleContent2(p)

\* aria-label={disabledReason && isDisabled ? disabledReason : undefined}
AriaLabel2(p) ==
  IF AndThen(p.disabledReason,
             isDisabled2(Default(p.disabled, False), Default(p.loading, False)))
  THEN p.disabledReason ELSE Undefined

\* The <button> element one render of the second copy produces
RenderButton2(p) ==
  [ className |-> ButtonClassName2,
    disabled |-> isDisabled2(Default(p.disabled, False), Default(p.loading, False)),
    ariaLabel |-> AriaLabel2(p),
    content |-> ButtonContent2(p),
    rest |-> [loadingText |-> p.loadingText] ]

\* handleClick of the second copy
handleClick2(p) ==
  IF isDisabled2(Default(p.disabled, False), Default(p.loading, False))
       \/ ~Truthy(p.onClick)
  THEN 0
  ELSE IF Truthy(Default(p.loading, False)) THEN 0
  ELSE 1

DispatchClick2(el, p) == IF el.disabled THEN 0 ELSE handleClick2(p)

\* Both copies are rendered with the same props
ButtonsInit ==
  /\ ButtonInit
  /\ button2 = RenderButton2(buttonProps)
  /\ focused2 = FALSE
  /\ onClickCalls2 = 0

\* The parent re-renders both copies with one prop changed
RerenderButtons ==
  /\ RerenderButton
  /\ button2' = RenderButton2(buttonProps')
  /\ UNCHANGED <<focused2, onClickCalls2>>

FocusButtons ==
  /\ FocusButton
  /\ focused2' = ~button2.disabled
  /\ UNCHANGED <<button2, onClickCalls2>>

BlurButtons ==
  /\ BlurButton
  /\ focused2' = FALSE
  /\ UNCHANGED <<button2, onClickCalls2>>

\* userEvent.click on each copy
ClickButtons ==
  /\ Click
  /\ onClickCalls2' = onClickCalls2 + DispatchClick2(button2, buttonProps)
  /\ focused2' = ~button2.disabled
  /\ UNCHANGED button2

\* userEvent.keyboard('{Enter}') on each copy
PressEnterButtons ==
  /\ PressEnter
  /\ onClickCalls2' = onClickCalls2
        + (IF focused2 THEN DispatchClick2(button2, buttonProps) ELSE 0)
  /\ UNCHANGED <<button2, focused2>>

----------------------------------------------------------------------------
(* Input *)

\* InputProps: the values each prop is drawn from
InputPropValues ==
  [ label |-> {Undefined, EmptyStr, "Email"},
    id |-> {Undefined, EmptyStr, "email"},
    disabled |-> OptBool,
    error |-> {Undefined, EmptyStr, "Email is required"},
    required |-> OptBool,
    helpText |-> {Undefined, EmptyStr, "We never share it"} ]

InputProps ==
  [ label : InputPropValues.label, id : InputPropValues.id,
    disabled : InputPropValues.disabled, error : InputPropValues.error,
    required : InputPropValues.required, helpText : InputPropValues.helpText ]

\* generateId(): a fresh pseudo-random id on every call
GeneratedIds == {"input-k3j9x2m1q", "input-7fd0zq4ab"}

\* `${inputId}-error` and `${inputId}-help`; NoId is an attribute left undefined
NoId == <<>>
ErrorId(inputId) == <<inputId, "-error">>
HelpId(inputId) == <<inputId, "-help">>

\* const hasError = Boolean(error)
hasError_defined(error) == error # Undefined
hasError(error) == Truthy(error)

\* aria-describedby={error ? `${inputId}-error` : helpText ? `${inputId}-help` : undefined}
AriaDescribedBy_helpFirst(inputId, error, helpText) ==
  IF Truthy(helpText) THEN HelpId(inputId)
  ELSE IF Truthy(error) THEN ErrorId(inputId)
  ELSE NoId
AriaDescribedBy(inputId, error, helpText) ==
  IF Truthy(error) THEN ErrorId(inputId)
  ELSE IF Truthy(helpText) THEN HelpId(inputId)
  ELSE NoId

\* {label && (<label htmlFor={inputId}>{label}{required && <span>*</span>}</label>)}
LabelNodes_noMarker(inputId, label, required) ==
  IF Truthy(label)
  THEN <<[htmlFor |-> inputId, text |-> label, marker |-> FALSE]>>
  ELSE <<>>
LabelNodes(inputId, label, required) ==
  IF Truthy(label)
  THEN <<[htmlFor |-> inputId, text |-> label, marker |-> Truthy(required)]>>
  ELSE <<>>

\* {helpText && !error && (<div id={`${inputId}-help`}>{helpText}</div>)}
HelpNodes_ignoresError(inputId, error, helpText) ==
  IF Truthy(helpText)
  THEN <<[id |-> HelpId(inputId), kind |-> "help", text |-> helpText]>>
  ELSE <<>>
HelpNodes(inputId, error, helpText) ==
  IF Truthy(helpText) /\ ~Truthy(error)
  THEN <<[id |-> HelpId(inputId), kind |-> "help", text |-> helpText]>>
  ELSE <<>>

\* {error && (<div id={`${inputId}-error`}>{error}</div>)}
ErrorNodes(inputId, error) ==
  IF Truthy(error)
  THEN <<[id |-> ErrorId(inputId), kind |-> "error", text |-> error]>>
  ELSE <<>>

\* The disabled attribute of the <input> element.  disabled is destructured
\* (default true) and never read again; it is not part of the {...props}
\* spread, so the element gets no disabled attribute.
FieldDisabled_forwarded(p) == Truthy(Default(p.disabled, True))
FieldDisabled(p) == FALSE

\* One render of Input; gen is what generateId() returns in this render.
RenderInput(p, gen) ==
  LET inputId == IF Truthy(p.id) THEN p.id ELSE gen
  IN [ label |-> LabelNodes(inputId, p.label, p.required),
       field |-> [ id |-> inputId,
                   required |-> Truthy(p.required),
                   ariaInvalid |-> hasError(p.error),
                   ariaDescribedBy |-> AriaDescribedBy(inputId, p.error, p.helpText),
                   disabled |-> FieldDisabled(p) ],
       described |-> HelpNodes(inputId, p.error, p.helpText)
                       \o ErrorNodes(inputId, p.error) ]

TypedChars == {"a", "@"}

InputInit ==
  /\ inputProps \in InputProps
  /\ \E gen \in GeneratedIds : input = RenderInput(inputProps, gen)
  /\ fieldValue = <<>>
  /\ typed = <<>>

\* The parent re-renders the Input with at most one prop changed
RerenderInput ==
  \E k \in DOMAIN InputPropValues, gen \in GeneratedIds :
    \E v \in InputPropValues[k] :
      /\ inputProps' = [inputProps EXCEPT ![k] = v]
      /\ input' = RenderInput(inputProps', gen)
      /\ UNCHANGED <<fieldValue, typed>>

\* userEvent.type(input, c): the user types c (typed is the text typed so
\* far); a disabled field takes no input
TypeChar ==
  \E c \in TypedChars :
    /\ Len(typed) < MaxTyped
    /\ typed' = Append(typed, c)
    /\ fieldValue' = IF input.field.disabled THEN fieldValue
                     ELSE Append(fieldValue, c)
    /\ UNCHANGED <<inputProps, input>>

----------------------------------------------------------------------------
(* CDK infrastructure: the Api, Vpc and ApiWafStack constructs and the     *)
(* two MainApplicationStack variants.  cdkProps is what the app (or a      *)
(* test) instantiates and with which props, cdkPlan the constructor steps  *)
(* still to run, resources what has been created so far.                   *)

Wildcard == "*"
LocalhostOrigin == "https://localhost:3000"
CorsError == "CORS origins must be specified and cannot be wildcard (*) for security"

\* An optional array prop: given is FALSE when the prop is undefined
NoList == [given |-> FALSE, items |-> <<>>]
List(items) == [given |-> TRUE, items |-> items]

SeqsUpTo(S, n) == UNION {[1..k -> S] : k \in 0..n}

Origins == {Wildcard, "https://app.example.com", "https://admin.example.com"}
OriginLists == {NoList} \cup {List(q) : q \in SeqsUpTo(Origins, MaxOrigins)}
IpRangeLists == {NoList, List(<<>>), List(<<"192.0.2.0/24">>)}
Stages == {Undefined, EmptyStr, "dev", "test", "prod", "Prod"}

\* ApiProps; vpc and secrets say whether the optional construct is passed
ApiProps ==
  [ corsAllowOrigins : OriginLists,
    frontendOrigin : {Undefined, EmptyStr} \cup Origins,
    vpc : BOOLEAN,
    secrets : BOOLEAN ]

\* VpcProps; given is FALSE when the constructor gets no props object
VpcProps ==
  {[given |-> FALSE, enableNatGateway |-> Undefined]}
    \cup [given : {TRUE}, enableNatGateway : OptBool]

\* const stage = props?.stage || 'dev'
StageOf_prodDefault(stage) == IF Truthy(stage) THEN stage ELSE "prod"
StageOf(stage) == IF Truthy(stage) THEN stage ELSE "dev"

----------------------------------------------------------------------------
(* Api construct *)

\* const allowOrigins = props.corsAllowOrigins ||
\*   (props.frontendOrigin ? [props.frontendOrigin] : ['https://localhost:3000'])
\* an array, empty or not, is truthy
allowOrigins_fallbackOnEmpty(p) ==
  IF p.corsAllowOrigins.given /\ p.corsAllowOrigins.items # <<>>
  THEN p.corsAllowOrigins.items
  ELSE IF Truthy(p.frontendOrigin) THEN <<p.frontendOrigin>>
  ELSE <<LocalhostOrigin>>
allowOrigins(p) ==
  IF p.corsAllowOrigins.given THEN p.corsAllowOrigins.items
  ELSE IF Truthy(p.frontendOrigin) THEN <<p.frontendOrigin>>
  ELSE <<LocalhostOrigin>>

NotWildcard(origin) == origin # Wildcard

\* const secureOrigins = allowOrigins.filter(origin => origin !== '*')
secureOrigins_unfiltered(p) == allowOrigins(p)
secureOrigins(p) == SelectSeq(allowOrigins(p), NotWildcard)

\* secureOrigins.join(","): the origins with a "," between neighbours
RECURSIVE JoinComma(_)
JoinComma(q) ==
  IF Len(q) <= 1 THEN q
  ELSE <<Head(q), ",">> \o JoinComma(Tail(q))

BaseEnvironmentKeys ==
  { "CONVERSATION_TABLE_NAME", "BOT_TABLE_NAME", "ENV_NAME", "CORS_ALLOW_ORIGINS",
    "USER_POOL_ID", "CLIENT_ID", "ACCOUNT", "REGION", "TABLE_ACCESS_ROLE_ARN",
    "STORAGE_BUCKET" }
SecretsEnvironmentKeys == {"APPLICATION_SECRETS_ARN", "DATABASE_SECRETS_ARN"}

\* new PythonFunction(this, "Handler", {...})
PythonHandler(p) ==
  [ id |-> "Handler",
    environmentKeys |-> BaseEnvironmentKeys
        \cup (IF p.secrets THEN SecretsEnvironmentKeys ELSE {}),
    CORS_ALLOW_ORIGINS |-> JoinComma(secureOrigins(p)),
    inVpc |-> p.vpc,
    securityGroups |-> IF p.vpc THEN {"LambdaSecurityGroup"} ELSE {} ]

\* new LambdaFunction(this, "HandlerFallback", {...}): no secrets entries
\* in the environment and no VPC configuration
FallbackHandler(p) ==
  [ id |-> "HandlerFallback",
    environmentKeys |-> BaseEnvironmentKeys,
    CORS_ALLOW_ORIGINS |-> JoinComma(secureOrigins(p)),
    inVpc |-> FALSE,
    securityGroups |-> {} ]

\* new iam.Role(this, "HandlerRole") with its managed policy and grants
HandlerRole(p) ==
  [ managedPolicy |-> IF p.vpc THEN "service-role/AWSLambdaVPCAccessExecutionRole"
                      ELSE "service-role/AWSLambdaBasicExecutionRole",
    secretsRead |-> p.secrets ]

\* new HttpApi(this, "Default", { corsPreflight: {...} })
HttpApi(p) ==
  [ allowOrigins |-> secureOrigins(p),
    allowCredentials |-> TRUE,
    allowMethods |-> {"GET", "HEAD", "OPTIONS", "POST", "PUT", "PATCH", "DELETE"} ]

Route(path, method, authorizer) ==
  [path |-> path, method |-> method, authorizer |-> authorizer]

\* api.addRoutes({ path: "/{proxy+}", methods: [...], authorizer })
ProxyRoutes_noAuthorizer ==
  {Route("/{proxy+}", m, FALSE) : m \in {"GET", "POST", "PUT", "PATCH", "DELETE"}}
ProxyRoutes ==
  {Route("/{proxy+}", m, TRUE) : m \in {"GET", "POST", "PUT", "PATCH", "DELETE"}}

\* api.addRoutes({ path: "/health", methods: [HttpMethod.GET] })
HealthRoutes == {Route("/health", "GET", FALSE)}

ApiSteps ==
  << "Api.secureOrigins", "Api.handlerRole", "Api.handler", "Api.httpApi",
     "Api.proxyRoutes", "Api.healthRoute" >>

----------------------------------------------------------------------------
(* Vpc construct *)

AnyIpv4 == "0.0.0.0/0"
VpcCidr == "10.0.0.0/16"

\* props?.enableNatGateway
enableNatGateway(props) ==
  IF props.given THEN Truthy(props.enableNatGateway) ELSE FALSE

\* natGateways: props?.enableNatGateway ? 1 : 0
natGateways(props) == IF enableNatGateway(props) THEN 1 ELSE 0

\* subnetConfiguration: Private always, Public only with the NAT gateway
subnetConfiguration_alwaysPublic(props) ==
  << [name |-> "Private", subnetType |-> "PRIVATE_ISOLATED"],
     [name |-> "Public", subnetType |-> "PUBLIC"] >>
subnetConfiguration(props) ==
  <<[name |-> "Private", subnetType |-> "PRIVATE_ISOLATED"]>>
    \o (IF enableNatGateway(props)
        THEN <<[name |-> "Public", subnetType |-> "PUBLIC"]>>
        ELSE <<>>)

TcpRule(peer, port) ==
  [protocol |-> "tcp", fromPort |-> port, toPort |-> port, peer |-> peer]
AllTraffic == [protocol |-> "-1", fromPort |-> 0, toPort |-> 65535, peer |-> AnyIpv4]

\* new ec2.SecurityGroup(this, id, { allowAllOutbound })
SecurityGroup(description, allowAllOutbound) ==
  [ description |-> description,
    allowAllOutbound |-> allowAllOutbound,
    egress |-> IF allowAllOutbound THEN {AllTraffic} ELSE {},
    ingress |-> {} ]

\* securityGroup.addEgressRule(peer, port): ignored when all outbound
\* traffic is already allowed
addEgressRule(sg, peer, port) ==
  IF sg.allowAllOutbound THEN sg
  ELSE [sg EXCEPT !.egress = @ \cup {TcpRule(peer, port)}]

\* securityGroup.addIngressRule(peer, port)
addIngressRule(sg, peer, port) ==
  [sg EXCEPT !.ingress = @ \cup {TcpRule(peer, port)}]

\* vpc.addInterfaceEndpoint(id, { securityGroups: [sg] }): open is left at
\* its default (true), which allows the endpoint port from the VPC CIDR
addInterfaceEndpoint(sg) == addIngressRule(sg, VpcCidr, 443)

\* this.lambdaSecurityGroup, after its constructor and addEgressRule
lambdaSecurityGroup_allOutbound ==
  addEgressRule(SecurityGroup("Security group for Lambda functions", TRUE),
                AnyIpv4, 443)
lambdaSecurityGroup ==
  addEgressRule(SecurityGroup("Security group for Lambda functions", FALSE),
                AnyIpv4, 443)

\* this.vpcEndpointSecurityGroup, after its constructor, addIngressRule and
\* the two interface endpoints that use it
vpcEndpointSecurityGroup_allOutbound ==
  addInterfaceEndpoint(addInterfaceEndpoint(
    addIngressRule(SecurityGroup("Security group for VPC endpoints", TRUE),
                   "LambdaSecurityGroup", 443)))
vpcEndpointSecurityGroup ==
  addInterfaceEndpoint(addInterfaceEndpoint(
    addIngressRule(SecurityGroup("Security group for VPC endpoints", FALSE),
                   "LambdaSecurityGroup", 443)))

\* new Vpc(scope, id, props)
VpcConstruct(props) ==
  [ natGateways |-> natGateways(props),
    subnetConfiguration |-> subnetConfiguration(props),
    lambdaSecurityGroup |-> lambdaSecurityGroup,
    vpcEndpointSecurityGroup |-> vpcEndpointSecurityGroup ]

----------------------------------------------------------------------------
(* ApiWafStack *)

ManagedRule(name, priority) ==
  [ name |-> name, priority |-> priority, statement |-> "managedRuleGroup",
    overrideAction |-> "none", action |-> "n/a" ]
IpSetRule(name, priority) ==
  [ name |-> name, priority |-> priority, statement |-> "ipSetReference",
    overrideAction |-> "n/a", action |-> "allow" ]

\* props.allowedIpVxAddressRanges && props.allowedIpVxAddressRanges.length > 0
HasRanges(ranges) == ranges.given /\ Len(ranges.items) > 0

\* rules: the managed rules first, then the IP rules from priority 10
ApiWafRules_ipRulesFirst(v4, v6) ==
  (IF HasRanges(v4) THEN <<IpSetRule("ApiWebAclIpV4RuleSet", 10)>> ELSE <<>>)
    \o (IF HasRanges(v6)
        THEN <<IpSetRule("ApiWebAclIpV6RuleSet", IF HasRanges(v4) THEN 11 ELSE 10)>>
        ELSE <<>>)
    \o << ManagedRule("AWSManagedRulesCommonRuleSet", 1),
          ManagedRule("AWSManagedRulesKnownBadInputsRuleSet", 2) >>
ApiWafRules(v4, v6) ==
  << ManagedRule("AWSManagedRulesCommonRuleSet", 1),
     ManagedRule("AWSManagedRulesKnownBadInputsRuleSet", 2) >>
    \o (IF HasRanges(v4) THEN <<IpSetRule("ApiWebAclIpV4RuleSet", 10)>> ELSE <<>>)
    \o (IF HasRanges(v6)
        THEN <<IpSetRule("ApiWebAclIpV6RuleSet", IF HasRanges(v4) THEN 11 ELSE 10)>>
        ELSE <<>>)

\* new wafv2.CfnWebACL(this, "ApiWebAcl", {...})
ApiWebAcl(v4, v6) ==
  [ scope |-> "REGIONAL", defaultAction |-> "allow", rules |-> ApiWafRules(v4, v6) ]

----------------------------------------------------------------------------
(* MainApplicationStack *)

DynamoStack == "MainApplicationStack"
RdsStack == "MainApplicationStack (RDS)"

\* DynamoDB variant: new Vpc(this, 'Vpc', { enableNatGateway: stage === 'prod' })
StackVpcProps_always(stage) == [given |-> TRUE, enableNatGateway |-> True]
StackVpcProps(stage) ==
  [ given |-> TRUE,
    enableNatGateway |-> IF StageOf(stage) = "prod" THEN True ELSE False ]

\* DynamoDB variant: new Database(this, 'Database', { pointInTimeRecovery: stage === 'prod' })
pointInTimeRecovery(stage) == StageOf(stage) = "prod"

\* RDS variant: deletionProtection: stage === 'prod'
deletionProtection(stage) == StageOf(stage) = "prod"

\* DynamoDB variant: the props of new Api(this, 'Api', {...})
StackApiProps ==
  [ corsAllowOrigins |-> NoList, frontendOrigin |-> Undefined,
    vpc |-> TRUE, secrets |-> TRUE ]

\* DynamoDB variant: new Auth(this, 'Auth', { origin: 'https://localhost:3000' })
StackAuth == [origin |-> LocalhostOrigin]

\* this.frontend.getOrigin(): the value the Frontend construct reports; it
\* is whatever the created distribution serves, never the literal the stack
\* passes to Auth
FrontendOrigin == "frontend.getOrigin()"

StackSteps ==
  <<"Vpc", "ApiWaf", "Database", "Auth">> \o ApiSteps \o <<"Frontend">>

----------------------------------------------------------------------------
(* Construction *)

NoResources ==
  [ error |-> "none", created |-> <<>>,
    vpc |-> <<>>, webAcl |-> <<>>, database |-> <<>>, rds |-> <<>>,
    auth |-> <<>>, handlerRole |-> <<>>, handlers |-> <<>>, httpApi |-> <<>>,
    routes |-> {}, frontend |-> <<>> ]

NoCdkProps ==
  [ target |-> "none", stage |-> Undefined,
    allowedIpV4AddressRanges |-> NoList, allowedIpV6AddressRanges |-> NoList,
    alternateDomainName |-> Undefined,
    vpcProps |-> [given |-> FALSE, enableNatGateway |-> Undefined],
    apiProps |-> StackApiProps,
    docker |-> TRUE ]

\* What is instantiated, and with which props.  docker says whether the
\* PythonFunction bundling can run.
CdkInputs ==
  {[NoCdkProps EXCEPT !.target = "Api", !.apiProps = p, !.docker = d] :
      p \in ApiProps, d \in BOOLEAN}
  \cup {[NoCdkProps EXCEPT !.target = "Vpc", !.vpcProps = p] : p \in VpcProps}
  \cup {[NoCdkProps EXCEPT !.target = "ApiWafStack",
                          !.allowedIpV4AddressRanges = v4,
                          !.allowedIpV6AddressRanges = v6] :
          v4 \in IpRangeLists, v6 \in IpRangeLists}
  \cup {[NoCdkProps EXCEPT !.target = DynamoStack, !.stage = s,
                          !.allowedIpV4AddressRanges = v4,
                          !.allowedIpV6AddressRanges = v6,
                          !.alternateDomainName = a, !.docker = d] :
          s \in Stages, v4 \in IpRangeLists, v6 \in IpRangeLists,
          a \in {Undefined, "app.example.com"}, d \in BOOLEAN}
  \cup {[NoCdkProps EXCEPT !.target = RdsStack, !.stage = s] : s \in Stages}

PlanOf(target) ==
  CASE target = "Api" -> ApiSteps
    [] target = "Vpc" -> <<"Vpc">>
    [] target = "ApiWafStack" -> <<"ApiWaf">>
    [] target = DynamoStack -> StackSteps
    [] target = RdsStack -> <<"RdsDatabase">>

\* The props each construct is built with: its own when it is instantiated
\* directly, those the stack passes when the stack builds it
ApiPropsOf(c) == IF c.target = DynamoStack THEN StackApiProps ELSE c.apiProps
VpcPropsOf(c) == IF c.target = DynamoStack THEN StackVpcProps(c.stage) ELSE c.vpcProps

CdkInit ==
  /\ cdkProps \in CdkInputs
  /\ cdkPlan = PlanOf(cdkProps.target)
  /\ resources = NoResources

AtStep(step) ==
  /\ cdkPlan # <<>>
  /\ Head(cdkPlan) = step
  /\ UNCHANGED cdkProps

Created(id) == Append(resources.created, id)

\* Vpc constructor
ConstructVpc ==
  /\ AtStep("Vpc")
  /\ cdkPlan' = Tail(cdkPlan)
  /\ resources' = [resources EXCEPT !.vpc = <<VpcConstruct(VpcPropsOf(cdkProps))>>,
                                    !.created = Created("Vpc")]

\* ApiWafStack constructor
ConstructApiWaf ==
  /\ AtStep("ApiWaf")
  /\ cdkPlan' = Tail(cdkPlan)
  /\ resources' = [resources EXCEPT
        !.webAcl = <<ApiWebAcl(cdkProps.allowedIpV4AddressRanges,
                               cdkProps.allowedIpV6AddressRanges)>>,
        !.created = Created("ApiWaf")]

\* DynamoDB variant: Database construct
ConstructDatabase ==
  /\ AtStep("Database")
  /\ cdkPlan' = Tail(cdkPlan)
  /\ resources' = [resources EXCEPT
        !.database = <<[pointInTimeRecovery |-> pointInTimeRecovery(cdkProps.stage)]>>,
        !.created = Created("Database")]

\* RDS variant: rds.DatabaseInstance
ConstructRdsDatabase ==
  /\ AtStep("RdsDatabase")
  /\ cdkPlan' = Tail(cdkPlan)
  /\ resources' = [resources EXCEPT
        !.rds = <<[deletionProtection |-> deletionProtection(cdkProps.stage)]>>,
        !.created = Created("ProfessionalPracticeDatabase")]

\* DynamoDB variant: Auth construct
ConstructAuth ==
  /\ AtStep("Auth")
  /\ cdkPlan' = Tail(cdkPlan)
  /\ resources' = [resources EXCEPT !.auth = <<StackAuth>>,
                                    !.created = Created("Auth")]

\* Api constructor: resolve and validate the CORS origins; the throw ends
\* the construction
ApiSecureOrigins ==
  /\ AtStep("Api.secureOrigins")
  /\ IF Len(secureOrigins(ApiPropsOf(cdkProps))) = 0
     THEN /\ cdkPlan' = <<>>
          /\ resources' = [resources EXCEPT !.error = CorsError]
     ELSE /\ cdkPlan' = Tail(cdkPlan)
          /\ UNCHANGED resources

\* Api constructor: handler role, policies and grants
ApiHandlerRole ==
  /\ AtStep("Api.handlerRole")
  /\ cdkPlan' = Tail(cdkPlan)
  /\ resources' = [resources EXCEPT
        !.handlerRole = <<HandlerRole(ApiPropsOf(cdkProps))>>,
        !.created = Created("HandlerRole")]

\* Api constructor: try { new PythonFunction(...) }
ApiPythonFunction ==
  /\ AtStep("Api.handler")
  /\ cdkProps.docker
  /\ cdkPlan' = Tail(cdkPlan)
  /\ resources' = [resources EXCEPT
        !.handlers = Append(@, PythonHandler(ApiPropsOf(cdkProps))),
        !.created = Created("Handler")]

\* Api constructor: catch { new LambdaFunction(...) }, the PythonFunction
\* constructor having thrown before it created anything
ApiHandlerFallback ==
  /\ AtStep("Api.handler")
  /\ ~cdkProps.docker
  /\ cdkPlan' = Tail(cdkPlan)
  /\ resources' = [resources EXCEPT
        !.handlers = Append(@, FallbackHandler(ApiPropsOf(cdkProps))),
        !.created = Created("HandlerFallback")]

\* Api constructor: new HttpApi
ApiHttpApi ==
  /\ AtStep("Api.httpApi")
  /\ cdkPlan' = Tail(cdkPlan)
  /\ resources' = [resources EXCEPT
        !.httpApi = <<HttpApi(ApiPropsOf(cdkProps))>>,
        !.created = Created("Default")]

\* Api constructor: the authorized proxy routes
ApiProxyRoutes ==
  /\ AtStep("Api.proxyRoutes")
  /\ cdkPlan' = Tail(cdkPlan)
  /\ resources' = [resources EXCEPT !.routes = @ \cup ProxyRoutes]

\* Api constructor: the health route
ApiHealthRoute ==
  /\ AtStep("Api.healthRoute")
  /\ cdkPlan' = Tail(cdkPlan)
  /\ resources' = [resources EXCEPT !.routes = @ \cup HealthRoutes,
                                    !.created = Created("Api")]

\* DynamoDB variant: Frontend construct
ConstructFrontend ==
  /\ AtStep("Frontend")
  /\ cdkPlan' = Tail(cdkPlan)
  /\ resources' = [resources EXCEPT
        !.frontend = <<[ origin |-> FrontendOrigin,
                         alternateDomainName |-> cdkProps.alternateDomainName ]>>,
        !.created = Created("Frontend")]

----------------------------------------------------------------------------
(* Specifications: each component is mounted on its own *)

ButtonAlone ==
  /\ inputProps = [ label |-> Undefined, id |-> Undefined, disabled |-> Undefined,
                    error |-> Undefined, required |-> Undefined,
                    helpText |-> Undefined ]
  /\ input = RenderInput(inputProps, "input-k3j9x2m1q")
  /\ fieldValue = <<>>
  /\ typed = <<>>

InputAlone ==
  /\ buttonProps = [ children |-> "Save Changes", loading |-> Undefined,
                     loadingText |-> Undefined, disabled |-> Undefined,
                     disabledReason |-> Undefined, startIcon |-> Undefined,
                     endIcon |-> Undefined, onClick |-> Undefined ]
  /\ button = RenderButton(buttonProps)
  /\ focused = FALSE
  /\ attempts = 0
  /\ onClickCalls = 0
  /\ lastAttempt = NoAttempt

NoCdk ==
  /\ cdkProps = NoCdkProps
  /\ cdkPlan = <<>>
  /\ resources = NoResources

\* The second copy of the Button is not mounted
NoSecond ==
  /\ button2 = <<>>
  /\ focused2 = FALSE
  /\ onClickCalls2 = 0

Init == ButtonInit /\ ButtonAlone /\ NoCdk /\ NoSecond

Next ==
  \/ RerenderButton /\ UNCHANGED <<inputVars, cdkVars, secondVars>>
  \/ FocusButton /\ UNCHANGED <<inputVars, cdkVars, secondVars>>
  \/ BlurButton /\ UNCHANGED <<inputVars, cdkVars, secondVars>>
  \/ Click /\ UNCHANGED <<inputVars, cdkVars, secondVars>>
  \/ PressEnter /\ UNCHANGED <<inputVars, cdkVars, secondVars>>

Spec == Init /\ [][Next]_vars

InitInput == InputInit /\ InputAlone /\ NoCdk /\ NoSecond

NextInput ==
  \/ RerenderInput /\ UNCHANGED <<buttonVars, cdkVars, secondVars>>
  \/ TypeChar /\ UNCHANGED <<buttonVars, cdkVars, secondVars>>

SpecInput == InitInput /\ [][NextInput]_vars

InitCdk == CdkInit /\ InputAlone /\ ButtonAlone /\ NoSecond

NextCdk ==
  \/ ConstructVpc /\ UNCHANGED <<buttonVars, inputVars, secondVars>>
  \/ ConstructApiWaf /\ UNCHANGED <<buttonVars, inputVars, secondVars>>
  \/ ConstructDatabase /\ UNCHANGED <<buttonVars, inputVars, secondVars>>
  \/ ConstructRdsDatabase /\ UNCHANGED <<buttonVars, inputVars, secondVars>>
  \/ ConstructAuth /\ UNCHANGED <<buttonVars, inputVars, secondVars>>
  \/ ApiSecureOrigins /\ UNCHANGED <<buttonVars, inputVars, secondVars>>
  \/ ApiHandlerRole /\ UNCHANGED <<buttonVars, inputVars, secondVars>>
  \/ ApiPythonFunction /\ UNCHANGED <<buttonVars, inputVars, secondVars>>
  \/ ApiHandlerFallback /\ UNCHANGED <<buttonVars, inputVars, secondVars>>
  \/ ApiHttpApi /\ UNCHANGED <<buttonVars, inputVars, secondVars>>
  \/ ApiProxyRoutes /\ UNCHANGED <<buttonVars, inputVars, secondVars>>
  \/ ApiHealthRoute /\ UNCHANGED <<buttonVars, inputVars, secondVars>>
  \/ ConstructFrontend /\ UNCHANGED <<buttonVars, inputVars, secondVars>>

SpecCdk == InitCdk /\ [][NextCdk]_vars

InitButtons == ButtonsInit /\ ButtonAlone /\ NoCdk

NextButtons ==
  \/ RerenderButtons /\ UNCHANGED <<inputVars, cdkVars>>
  \/ FocusButtons /\ UNCHANGED <<inputVars, cdkVars>>
  \/ BlurButtons /\ UNCHANGED <<inputVars, cdkVars>>
  \/ ClickButtons /\ UNCHANGED <<inputVars, cdkVars>>
  \/ PressEnterButtons /\ UNCHANGED <<inputVars, cdkVars>>

SpecButtons == InitButtons /\ [][NextButtons]_vars

----------------------------------------------------------------------------
(* Button properties (Spec) *)

Blocked == buttonProps.disabled = True \/ buttonProps.loading = True
IsAttempt == attempts' # attempts
Slots(content) == {content[i].slot : i \in DOMAIN content}
Texts(content) == {content[i].text : i \in DOMAIN content}

\* C1: an activation attempt (click or Enter) made while disabled or
\* loading is true never invokes onClick: it leaves the callback count
\* unchanged, whatever props were rendered before.
C1_BlockedAttemptNeverInvokes ==
  [][(IsAttempt /\ Blocked) => onClickCalls' = onClickCalls]_vars

C1_Witness ==
  /\ lastAttempt.kind = "click"
  /\ lastAttempt.disabled /\ ~lastAttempt.loading /\ lastAttempt.onClick
  /\ attempts = 2
  /\ onClickCalls = 1

\* C2: with onClick supplied and neither flag true, one pointer click, or
\* one Enter press while the button has focus, invokes onClick exactly once.
C2_AcceptedAttemptInvokesOnce ==
  [][(/\ IsAttempt
      /\ buttonProps.onClick # Undefined
      /\ ~Blocked
      /\ (lastAttempt'.kind = "enter" => focused))
       => onClickCalls' = onClickCalls + 1]_vars

C2_Witness ==
  /\ lastAttempt.kind = "enter"
  /\ lastAttempt.focused /\ lastAttempt.onClick
  /\ ~lastAttempt.disabled /\ ~lastAttempt.loading
  /\ attempts = 2
  /\ onClickCalls = 2

\* C3: every render with loading=true yields a disabled element whose
\* content is exactly the spinner followed by the text 'Loading...', with
\* no children, startIcon or endIcon node.
C3_LoadingRendersBusy ==
  buttonProps.loading = True =>
    /\ button.disabled
    /\ button.content = << [kind |-> "svg", slot |-> "spinner", text |-> ""],
                           [kind |-> "text", slot |-> "busy", text |-> "Loading..."] >>
    /\ Slots(button.content) \cap {"children", "startIcon", "endIcon"} = {}

C3_Witness ==
  /\ buttonProps.loading = True
  /\ buttonProps.disabled = False
  /\ buttonProps.startIcon = "icon"
  /\ buttonProps.endIcon = NumZero
  /\ button.disabled
  /\ "Loading..." \in Texts(button.content)

\* C4: every render with disabled=true and loading=false has the content
\* of the enabled rendering (children with the supplied icons, no busy
\* indicator); of the element only disabled and aria-label differ, and an
\* activation attempt invokes nothing.
EnabledRendering == RenderButton([buttonProps EXCEPT !.disabled = False])

C4_DisabledKeepsContent ==
  /\ [](buttonProps.disabled = True /\ buttonProps.loading # True =>
          /\ button.disabled
          /\ ~EnabledRendering.disabled
          /\ button.content = EnabledRendering.content
          /\ button.rest = EnabledRendering.rest
          /\ "children" \in Slots(button.content)
          /\ Slots(button.content) \cap {"spinner", "busy"} = {}
          /\ buttonProps.startIcon = "icon" => "startIcon" \in Slots(button.content)
          /\ buttonProps.endIcon = "icon" => "endIcon" \in Slots(button.content))
  /\ [][(IsAttempt /\ buttonProps.disabled = True /\ buttonProps.loading # True)
          => onClickCalls' = onClickCalls]_vars

C4_Witness ==
  /\ buttonProps.disabled = True
  /\ buttonProps.loading = Undefined
  /\ buttonProps.startIcon = "icon"
  /\ buttonProps.disabledReason = "Form is incomplete"
  /\ button.disabled
  /\ Len(button.content) = 2
  /\ lastAttempt.kind = "enter" /\ lastAttempt.disabled /\ lastAttempt.focused

\* C5: aria-label equals disabledReason when disabledReason is a non-empty
\* string and disabled or loading is true; it is absent in every other case.
C5_AriaLabelWhenBlockedWithReason ==
  button.ariaLabel =
    IF buttonProps.disabledReason \notin {Undefined, EmptyStr} /\ Blocked
    THEN buttonProps.disabledReason
    ELSE Undefined

C5_Witness ==
  /\ buttonProps.disabledReason = "Form is incomplete"
  /\ buttonProps.loading = True
  /\ buttonProps.disabled # True
  /\ button.ariaLabel = "Form is incomplete"

\* C6: a render with loading=true and a loadingText string displays the
\* supplied loadingText in the busy state.
C6_LoadingTextDisplayed ==
  (buttonProps.loading = True /\ buttonProps.loadingText # Undefined) =>
    buttonProps.loadingText \in Texts(button.content)

----------------------------------------------------------------------------
(* Input properties (SpecInput) *)

NonEmpty(v) == v \notin {Undefined, EmptyStr}
DescribedIds == {input.described[i].id : i \in DOMAIN input.described}
NodesOfKind(kind) == {i \in DOMAIN input.described : input.described[i].kind = kind}

\* C7: with a non-empty error, whatever helpText is, aria-describedby is
\* '<inputId>-error', the id of the rendered error node, and never the id
\* of the help-text node.
C7_DescriptionPointsToError ==
  NonEmpty(inputProps.error) =>
    /\ input.field.ariaDescribedBy = <<input.field.id, "-error">>
    /\ input.field.ariaDescribedBy # <<input.field.id, "-help">>
    /\ \E i \in NodesOfKind("error") :
         input.described[i].id = input.field.ariaDescribedBy

C7_Witness ==
  /\ NonEmpty(inputProps.error)
  /\ NonEmpty(inputProps.helpText)
  /\ inputProps.id = Undefined
  /\ input.field.ariaDescribedBy = <<"input-7fd0zq4ab", "-error">>

\* C8: for every combination of error and helpText, at most one of the
\* error node and the help-text node is rendered, and aria-describedby
\* references at most one of them.
C8_AtMostOneDescription ==
  /\ Len(input.described) <= 1
  /\ ~(NodesOfKind("error") # {} /\ NodesOfKind("help") # {})
  /\ Cardinality({i \in DOMAIN input.described :
                    input.described[i].id = input.field.ariaDescribedBy}) <= 1

C8_Witness ==
  /\ NonEmpty(inputProps.error)
  /\ NonEmpty(inputProps.helpText)
  /\ Len(input.described) = 1
  /\ input.described[1].kind = "error"

HasMarker == \E i \in DOMAIN input.label : input.label[i].marker

\* C9 as stated: with required=true a required-field marker is rendered
\* for every combination of the other props, label absent included.
C9_MarkerAlwaysWhenRequired ==
  inputProps.required = True => HasMarker

\* C9 amended: with required=true the marker is rendered exactly when a
\* non-empty label is supplied; without a label only the required
\* attribute of the field is set.
C9_MarkerWhenRequiredAndLabelled ==
  inputProps.required = True =>
    /\ input.field.required
    /\ HasMarker <=> NonEmpty(inputProps.label)

C9_Witness ==
  /\ inputProps.required = True
  /\ inputProps.label = "Email"
  /\ NonEmpty(inputProps.error)
  /\ HasMarker

\* C10: aria-invalid is true and the error text is rendered exactly once
\* if and only if error is a non-empty string; otherwise aria-invalid is
\* false and no error node is rendered.
C10_ValidityTracksError ==
  /\ input.field.ariaInvalid = NonEmpty(inputProps.error)
  /\ NonEmpty(inputProps.error) =>
       Cardinality({i \in DOMAIN input.described :
                      input.described[i].text = inputProps.error}) = 1
  /\ ~NonEmpty(inputProps.error) => NodesOfKind("error") = {}

C10_Witness ==
  /\ inputProps.error = "Email is required"
  /\ inputProps.label = "Email"
  /\ input.field.ariaInvalid
  /\ NodesOfKind("error") # {}

\* C11: an Input rendered without a disabled prop is enabled, and every
\* character the user types into it is appended to the field's value, so
\* the value is exactly the typed text.
C11_EnabledWithoutDisabledProp ==
  /\ [](inputProps.disabled = Undefined => ~input.field.disabled)
  /\ [][(typed' # typed /\ inputProps.disabled = Undefined)
          => fieldValue' = Append(fieldValue, typed'[Len(typed')])]_vars

C11_Witness ==
  /\ inputProps.disabled = Undefined
  /\ inputProps.label = "Email"
  /\ typed = <<"a", "@">>
  /\ fieldValue = <<"a", "@">>

\* C12: the disabled prop controls the field: with disabled=true the input
\* element is disabled and takes no user input, with disabled=false it is
\* enabled.
C12_DisabledPropControlsField ==
  /\ [](/\ inputProps.disabled = True => input.field.disabled
        /\ inputProps.disabled = False => ~input.field.disabled)
  /\ [][(typed' # typed /\ inputProps.disabled = True)
          => fieldValue' = fieldValue]_vars

----------------------------------------------------------------------------
(* CDK properties (SpecCdk) *)

Pending(step) == \E i \in DOMAIN cdkPlan : cdkPlan[i] = step
Succeeded == cdkPlan = <<>> /\ resources.error = "none"
NoWildcardIn(q) == \A i \in DOMAIN q : q[i] # "*"
NotComma(token) == token # ","

\* The entries a reader of CORS_ALLOW_ORIGINS gets by splitting at ","
EnvEntries(joined) == SelectSeq(joined, NotComma)

\* C13: whenever the Api construct is built, the allowOrigins of the HTTP
\* API and the entries of CORS_ALLOW_ORIGINS are non-empty and contain no
\* '*', whatever corsAllowOrigins and frontendOrigin were passed.
C13_CorsOriginsSecure ==
  /\ \A i \in DOMAIN resources.httpApi :
       /\ Len(resources.httpApi[i].allowOrigins) > 0
       /\ NoWildcardIn(resources.httpApi[i].allowOrigins)
  /\ \A i \in DOMAIN resources.handlers :
       /\ Len(EnvEntries(resources.handlers[i].CORS_ALLOW_ORIGINS)) > 0
       /\ NoWildcardIn(EnvEntries(resources.handlers[i].CORS_ALLOW_ORIGINS))

C13_Witness ==
  /\ cdkProps.target = "Api"
  /\ cdkProps.apiProps.corsAllowOrigins = List(<<"*", "https://app.example.com">>)
  /\ Succeeded
  /\ resources.httpApi[1].allowOrigins = <<"https://app.example.com">>
  /\ resources.handlers[1].CORS_ALLOW_ORIGINS = <<"https://app.example.com">>

\* C14: the stage-gated data-protection flag equals (stage = 'prod'), an
\* omitted or empty stage counting as 'dev': deletionProtection of the RDS
\* variant and pointInTimeRecovery of the DynamoDB variant.
EffectiveStage ==
  IF cdkProps.stage \in {Undefined, EmptyStr} THEN "dev" ELSE cdkProps.stage

C14_ProdGatesDataProtection ==
  /\ \A i \in DOMAIN resources.rds :
       resources.rds[i].deletionProtection = (EffectiveStage = "prod")
  /\ \A i \in DOMAIN resources.database :
       resources.database[i].pointInTimeRecovery = (EffectiveStage = "prod")

C14_Witness ==
  /\ cdkProps.target = RdsStack
  /\ cdkProps.stage = "prod"
  /\ Len(resources.rds) = 1
  /\ resources.rds[1].deletionProtection

\* C15: for every combination of the allowed IPv4 and IPv6 ranges, the Web
\* ACL of ApiWafStack is REGIONAL with default action allow, and its rules
\* start with AWSManagedRulesCommonRuleSet at priority 1 followed by
\* AWSManagedRulesKnownBadInputsRuleSet at priority 2, both with override
\* action none.
C15_ManagedRulesFirst ==
  \A i \in DOMAIN resources.webAcl :
    LET acl == resources.webAcl[i] IN
      /\ acl.scope = "REGIONAL"
      /\ acl.defaultAction = "allow"
      /\ Len(acl.rules) >= 2
      /\ acl.rules[1].name = "AWSManagedRulesCommonRuleSet"
      /\ acl.rules[1].priority = 1
      /\ acl.rules[1].overrideAction = "none"
      /\ acl.rules[2].name = "AWSManagedRulesKnownBadInputsRuleSet"
      /\ acl.rules[2].priority = 2
      /\ acl.rules[2].overrideAction = "none"

C15_Witness ==
  /\ cdkProps.target = "ApiWafStack"
  /\ cdkProps.allowedIpV4AddressRanges = List(<<"192.0.2.0/24">>)
  /\ cdkProps.allowedIpV6AddressRanges = List(<<"192.0.2.0/24">>)
  /\ Len(resources.webAcl) = 1
  /\ Len(resources.webAcl[1].rules) = 4

Https(peer) == [protocol |-> "tcp", fromPort |-> 443, toPort |-> 443, peer |-> peer]

\* C16 as stated: the Lambda security group's egress is exactly TCP 443 to
\* 0.0.0.0/0, and the VPC-endpoint security group has no egress and only
\* TCP 443 ingress from the Lambda security group.
C16_OnlyLambdaReachesEndpoints ==
  \A i \in DOMAIN resources.vpc :
    /\ resources.vpc[i].lambdaSecurityGroup.egress = {Https("0.0.0.0/0")}
    /\ resources.vpc[i].vpcEndpointSecurityGroup.egress = {}
    /\ resources.vpc[i].vpcEndpointSecurityGroup.ingress = {Https("LambdaSecurityGroup")}

\* C16 amended: the Lambda security group's egress is exactly TCP 443 to
\* 0.0.0.0/0; the VPC-endpoint security group has no egress, and its
\* ingress is TCP 443 only, from the Lambda security group and from the
\* VPC CIDR that the open interface endpoints admit.
C16_SecurityGroupsRestrictive ==
  \A i \in DOMAIN resources.vpc :
    /\ ~resources.vpc[i].lambdaSecurityGroup.allowAllOutbound
    /\ resources.vpc[i].lambdaSecurityGroup.egress = {Https("0.0.0.0/0")}
    /\ ~resources.vpc[i].vpcEndpointSecurityGroup.allowAllOutbound
    /\ resources.vpc[i].vpcEndpointSecurityGroup.egress = {}
    /\ resources.vpc[i].vpcEndpointSecurityGroup.ingress =
         {Https("LambdaSecurityGroup"), Https("10.0.0.0/16")}

C16_Witness ==
  /\ cdkProps.target = "Vpc"
  /\ cdkProps.vpcProps.given
  /\ cdkProps.vpcProps.enableNatGateway = True
  /\ Len(resources.vpc) = 1
  /\ Cardinality(resources.vpc[1].lambdaSecurityGroup.egress) = 1

\* C17: the Vpc construct has one NAT gateway and the subnet groups
\* {Private, Public} exactly when enableNatGateway is true, and otherwise
\* no NAT gateway and only the isolated Private group; the DynamoDB-variant
\* stack passes enableNatGateway = (stage = 'prod').
NatEnabled ==
  IF cdkProps.target = DynamoStack THEN EffectiveStage = "prod"
  ELSE cdkProps.vpcProps.given /\ cdkProps.vpcProps.enableNatGateway = True

SubnetGroups(v) == {v.subnetConfiguration[j].name : j \in DOMAIN v.subnetConfiguration}

C17_NatOnlyWhenEnabled ==
  \A i \in DOMAIN resources.vpc :
    LET v == resources.vpc[i] IN
      /\ v.natGateways = IF NatEnabled THEN 1 ELSE 0
      /\ SubnetGroups(v) = IF NatEnabled THEN {"Private", "Public"} ELSE {"Private"}
      /\ ~NatEnabled =>
           \A j \in DOMAIN v.subnetConfiguration :
             v.subnetConfiguration[j].subnetType = "PRIVATE_ISOLATED"

C17_Witness ==
  /\ cdkProps.target = DynamoStack
  /\ cdkProps.stage = "prod"
  /\ Len(resources.vpc) = 1
  /\ resources.vpc[1].natGateways = 1
  /\ Len(resources.vpc[1].subnetConfiguration) = 2

\* C18: the Api construct takes corsAllowOrigins, else [frontendOrigin],
\* else ['https://localhost:3000'], drops every '*', and throws the CORS
\* error exactly when nothing remains ([] and ['*'] fail, with no fallback);
\* when it throws, no handler and no HTTP API exists.
PassedApiProps ==
  IF cdkProps.target = "Api" THEN cdkProps.apiProps
  ELSE [ corsAllowOrigins |-> NoList, frontendOrigin |-> Undefined,
         vpc |-> TRUE, secrets |-> TRUE ]

ResolvedOrigins ==
  IF PassedApiProps.corsAllowOrigins.given THEN PassedApiProps.corsAllowOrigins.items
  ELSE IF PassedApiProps.frontendOrigin \notin {Undefined, EmptyStr}
       THEN <<PassedApiProps.frontendOrigin>>
       ELSE <<"https://localhost:3000">>

RemainingOrigins == SelectSeq(ResolvedOrigins, NotWildcard)

OriginsValidated ==
  /\ cdkProps.target \in {"Api", DynamoStack}
  /\ ~Pending("Api.secureOrigins")

CorsFailed ==
  resources.error = "CORS origins must be specified and cannot be wildcard (*) for security"

C18_CorsValidation ==
  /\ OriginsValidated => (CorsFailed <=> Len(RemainingOrigins) = 0)
  /\ ~OriginsValidated => ~CorsFailed
  /\ CorsFailed =>
       /\ cdkPlan = <<>>
       /\ resources.handlers = <<>>
       /\ resources.httpApi = <<>>
       /\ resources.routes = {}
  /\ \A i \in DOMAIN resources.httpApi :
       resources.httpApi[i].allowOrigins = RemainingOrigins

C18_Witness ==
  /\ cdkProps.target = "Api"
  /\ cdkProps.apiProps.corsAllowOrigins = List(<<>>)
  /\ cdkProps.apiProps.frontendOrigin = "https://app.example.com"
  /\ CorsFailed
  /\ resources.handlers = <<>>

\* C19: at the end of MainApplicationStack's construction the API's CORS
\* allowed origins and the Auth origin are the Frontend's origin, not the
\* 'https://localhost:3000' placeholder.
C19_OriginsSetFromFrontend ==
  (cdkProps.target = DynamoStack /\ Succeeded) =>
    /\ resources.httpApi[1].allowOrigins = <<resources.frontend[1].origin>>
    /\ resources.auth[1].origin = resources.frontend[1].origin

\* C20: the only route without the authorizer is GET /health; each of GET,
\* POST, PUT, PATCH and DELETE on '/{proxy+}' carries it, so the only
\* request that reaches the handler unauthenticated is GET /health.
RequestMethods == {"GET", "HEAD", "OPTIONS", "POST", "PUT", "PATCH", "DELETE"}
RequestPaths == {"/health", "/users", "/health/live"}

\* The route API Gateway selects: a full match before the greedy path
MatchingRoutes(method, path) ==
  LET full == {r \in resources.routes : r.path = path /\ r.method = method}
      greedy == {r \in resources.routes : r.path = "/{proxy+}" /\ r.method = method}
  IN IF full # {} THEN full ELSE greedy

ReachesUnauthenticated(method, path) ==
  \E r \in MatchingRoutes(method, path) : ~r.authorizer

C20_OnlyHealthUnauthenticated ==
  /\ \A r \in resources.routes :
       ~r.authorizer => (r.path = "/health" /\ r.method = "GET")
  /\ \A m \in RequestMethods, p \in RequestPaths :
       ReachesUnauthenticated(m, p) => (m = "GET" /\ p = "/health")
  /\ (cdkProps.target \in {"Api", DynamoStack} /\ Succeeded) =>
       /\ \A m \in {"GET", "POST", "PUT", "PATCH", "DELETE"} :
            [path |-> "/{proxy+}", method |-> m, authorizer |-> TRUE] \in resources.routes
       /\ ReachesUnauthenticated("GET", "/health")

C20_Witness ==
  /\ cdkProps.target = "Api"
  /\ Succeeded
  /\ Cardinality(resources.routes) = 6
  /\ ~ReachesUnauthenticated("POST", "/health")

\* C21: whichever handler the Api construct ends up with, the primary or
\* the fallback, exactly one exists after construction, it is in the VPC
\* with the Lambda security group when vpc is supplied, and its environment
\* has APPLICATION_SECRETS_ARN and DATABASE_SECRETS_ARN when secrets is
\* supplied.
C21_HandlersEquivalent ==
  (cdkProps.target \in {"Api", DynamoStack} /\ Succeeded) =>
    /\ Len(resources.handlers) = 1
    /\ PassedApiProps.vpc =>
         /\ resources.handlers[1].inVpc
         /\ resources.handlers[1].securityGroups = {"LambdaSecurityGroup"}
    /\ PassedApiProps.secrets =>
         {"APPLICATION_SECRETS_ARN", "DATABASE_SECRETS_ARN"}
           \subseteq resources.handlers[1].environmentKeys

----------------------------------------------------------------------------
(* Button copies (SpecButtons) *)

\* C22: the two copies of the Button are behaviourally equivalent: under
\* the same props and the same sequence of activation attempts they have
\* the same disabled attribute, the same aria-label, the same rendered
\* content and the same onClick invocation count, and they differ in their
\* CSS class strings.
C22_CopiesEquivalent ==
  /\ button2.disabled = button.disabled
  /\ button2.ariaLabel = button.ariaLabel
  /\ button2.content = button.content
  /\ button2.rest = button.rest
  /\ focused2 = focused
  /\ onClickCalls2 = onClickCalls
  /\ button2.className # ButtonClassName

C22_Witness ==
  /\ onClickCalls2 = 2
  /\ attempts = 3
  /\ buttonProps.disabled = True
  /\ button2.disabled
  /\ button2.ariaLabel = "Form is incomplete"
  /\ button2.content[1].slot = "startIcon"

====
